---- MODULE Spec2Model ----
(***************************************************************************)
(* A model of the asynchronous control flow of the repository:             *)
(*   - practice/script.js: getData (a promise settled by a 3000 ms timer)  *)
(*     and getAllData (an async function awaiting three getData calls);    *)
(*   - Readme.md: the async functions getUserData, getMultipleUsers and    *)
(*     robustGetUserData, composed from the external fetches               *)
(*     fetchFromDatabase, fetchUserPosts and fetchPostComments.            *)
(* The JavaScript run time is modelled by its observable machinery: the    *)
(* timer list with the time each timer has left, the promise table, the    *)
(* microtask (job) queue and the frames of the async function invocations. *)
(***************************************************************************)
EXTENDS Integers, Sequences, FiniteSets, TLC

VARIABLES
    timeoutMs,   \* the timeout cap the external caller has in mind; no function of the program receives it
    promises,    \* the promise table: a sequence of promise records
    timers,      \* the timers registered by setTimeout and not yet fired, in registration
                 \* order, each with the time left until it is due
    microtasks,  \* the job queue of promise reactions, FIFO
    frames,      \* the invocations of async functions made so far
    log          \* the console output, oldest line first

vars == <<timeoutMs, promises, timers, microtasks, frames, log>>

---------------------------------------------------------------------------
(* Bounds of the model *)

\* external invocations of script.js functions (getAllData or getData) in one behaviour
MaxInvocations == 2
\* the granularity of the clock, in ms
TickMs == 1000
\* the ids an external caller passes to getData directly are 1..MaxId
MaxId == 3

\* getMultipleUsers is given lists of at most MaxLen user ids
MaxLen == 2
\* fetchUserPosts answers with at most MaxPosts posts
MaxPosts == 2

\* the delay getData passes to setTimeout
DelayMs == 3000

\* timeout caps a caller may have in mind, one below and one above DelayMs;
\* getData and getAllData have no parameter that could receive one
Caps == {1000, 5000}

---------------------------------------------------------------------------
(* JavaScript values: records tagged by t *)

Undefined == [t |-> "undefined"]
Num(n) == [t |-> "number", n |-> n]
Array(items) == [t |-> "array", items |-> items]
Err(name) == [t |-> "error", name |-> name]
User(id, ver) == [t |-> "user", id |-> id, ver |-> ver]
Post(id) == [t |-> "post", id |-> id]
Comment(postId) == [t |-> "comment", post |-> postId]
Obj(user, posts, comments) ==
    [t |-> "object", user |-> user, posts |-> posts, comments |-> comments]

---------------------------------------------------------------------------
(* Promises, timers, jobs *)

\* the continuation an await registers on the promise it awaits
ResumeJobFirst(f) == [job |-> "resume", frame |-> 1]

ResumeJob(f) == [job |-> "resume", frame |-> f]

\* a promise as its constructor leaves it. caller and order are history the
\* program does not hold: the frame that made the call (0: an external
\* caller), and the promise's rank among the settled promises (0: pending)
NewPromise(kind, arg, reactions, caller) ==
    [kind |-> kind, arg |-> arg, state |-> "pending", value |-> Undefined,
     reactions |-> reactions, caller |-> caller, order |-> 0]

Settled == {q \in 1..Len(promises) : promises[q].state # "pending"}

\* resolve(v) / reject(e) on a promise record: a settled promise stays as it is
Settle(p, state, v) ==
    IF p.state # "pending" THEN p
    ELSE [p EXCEPT !.state = state, !.value = v, !.reactions = <<>>,
                   !.order = Cardinality(Settled) + 1]

\* setTimeout(cb, delay) as the record the timer list keeps
NewTimer(p, delay) == [promise |-> p, remaining |-> delay]

NextTimerLifo ==
    CHOOSE i \in 1..Len(timers) :
        \A j \in 1..Len(timers) :
            \/ timers[i].remaining < timers[j].remaining
            \/ timers[i].remaining = timers[j].remaining /\ i >= j

\* the position in the timer list of the timer the event loop runs next: the
\* one due first, and among timers due together the one registered first
NextTimer ==
    CHOOSE i \in 1..Len(timers) :
        \A j \in 1..Len(timers) :
            \/ timers[i].remaining < timers[j].remaining
            \/ timers[i].remaining = timers[j].remaining /\ i <= j

TimerDueAnytime(t) == TRUE

\* a timer never runs before its delay has elapsed
TimerDue(t) == t.remaining = 0

\* TickMs later: every pending timer is that much closer to being due
Elapse(t) == [t EXCEPT !.remaining = IF @ > TickMs THEN @ - TickMs ELSE 0]

RemoveAtKeeps(s, i) == s

\* a timer that has run leaves the timer list
RemoveAt(s, i) == [k \in 1..(Len(s) - 1) |-> IF k < i THEN s[k] ELSE s[k + 1]]

\* an async function's frame suspended at its pc-th await, on promise p;
\* awaited is the history of the values its awaits have produced
Frame(fn, pc, p, locals, awaited) ==
    [fn |-> fn, pc |-> pc, awaiting |-> p, state |-> "pending", value |-> Undefined,
     locals |-> locals, awaited |-> awaited]

\* the async function returns v / throws e: its promise is settled
Return(fr, v) ==
    [fr EXCEPT !.state = "fulfilled", !.value = v, !.pc = 0, !.awaiting = 0]
Throw(fr, e) ==
    [fr EXCEPT !.state = "rejected", !.value = e, !.pc = 0, !.awaiting = 0]

\* console.log lines of script.js; frame and promise are history (0: none)
GettingLine(f, id) == [line |-> "getting data", id |-> id, frame |-> f, promise |-> 0]
DataLine(p) == [line |-> "data", id |-> promises[p].arg, frame |-> promises[p].caller,
                promise |-> p]

---------------------------------------------------------------------------
(* practice/script.js *)

ResolvedValueIsId(dataID) == Num(dataID)

\* the value the timer callback of getData passes to resolve
ResolvedValue(dataID) == Num(200)

GetDataSettlesCapped(dataID) ==
    IF timeoutMs < DelayMs
    THEN [state |-> "rejected", value |-> Err("TimeoutError")]
    ELSE [state |-> "fulfilled", value |-> ResolvedValue(dataID)]

\* how the timer callback of getData settles the promise: always resolve
GetDataSettles(dataID) == [state |-> "fulfilled", value |-> ResolvedValue(dataID)]

\* the ids getAllData fetches, in the order of its three awaits
GetAllDataIdsTwo == <<1, 2>>

GetAllDataIds == <<1, 2, 3>>

GetAllDataReturnsList(awaited) == Array(awaited)

\* getAllData has no return statement: its promise is resolved with undefined
GetAllDataReturn(awaited) == Undefined

\* the invocations an external caller has made: of async functions, and of getData directly
Invocations == Len(frames) + Cardinality({p \in 1..Len(promises) : promises[p].caller = 0})

\* getData(dataID) called from outside, not awaited
CallGetData(dataID) ==
    /\ Invocations < MaxInvocations
    /\ promises' = Append(promises, NewPromise("getData", dataID, <<>>, 0))
    /\ timers' = Append(timers, NewTimer(Len(promises) + 1, DelayMs))
    /\ UNCHANGED <<timeoutMs, microtasks, frames, log>>

\* getAllData with its awaits left out: the three calls are made at once
CallGetAllDataNoAwait ==
    /\ Invocations < MaxInvocations
    /\ LET f == Len(frames) + 1
           n == Len(promises)
       IN  /\ log' = log \o [k \in 1..Len(GetAllDataIds) |-> GettingLine(f, GetAllDataIds[k])]
           /\ promises' = promises \o [k \in 1..Len(GetAllDataIds) |->
                              NewPromise("getData", GetAllDataIds[k], <<>>, f)]
           /\ timers' = timers \o [k \in 1..Len(GetAllDataIds) |-> NewTimer(n + k, DelayMs)]
           /\ frames' = Append(frames,
                  Return(Frame("getAllData", 0, 0, Undefined, <<>>), Undefined))
    /\ UNCHANGED <<timeoutMs, microtasks>>

\* getAllData() called: it runs to its first await
CallGetAllData ==
    /\ Invocations < MaxInvocations
    /\ \A g \in 1..Len(frames) : frames[g].fn = "getAllData"
    /\ LET f == Len(frames) + 1
           p == Len(promises) + 1
       IN  /\ log' = Append(log, GettingLine(f, GetAllDataIds[1]))
           /\ promises' = Append(promises,
                  NewPromise("getData", GetAllDataIds[1], <<ResumeJob(f)>>, f))
           /\ timers' = Append(timers, NewTimer(p, DelayMs))
           /\ frames' = Append(frames, Frame("getAllData", 1, p, Undefined, <<>>))
    /\ UNCHANGED <<timeoutMs, microtasks>>

\* the timer callback of getData: console.log("data", dataID); resolve(200).
\* A timer is a task: it runs when the job queue is empty
TimerFire ==
    /\ timers # <<>>
    /\ microtasks = <<>>
    /\ LET i == NextTimer
           p == timers[i].promise
           how == GetDataSettles(promises[p].arg)
       IN  /\ TimerDue(timers[i])
           /\ log' = Append(log, DataLine(p))
           /\ promises' = [promises EXCEPT ![p] = Settle(@, how.state, how.value)]
           /\ microtasks' = microtasks \o promises[p].reactions
           /\ timers' = RemoveAt(timers, i)
    /\ UNCHANGED <<timeoutMs, frames>>

\* the clock advances
Tick ==
    /\ \E i \in 1..Len(timers) : timers[i].remaining > 0
    /\ timers' = [i \in 1..Len(timers) |-> Elapse(timers[i])]
    /\ UNCHANGED <<timeoutMs, promises, microtasks, frames, log>>

\* getAllData resumed after an await: the next "getting data" line and
\* getData call, or the implicit return after the last await
ResumeGetAllData ==
    /\ microtasks # <<>>
    /\ Head(microtasks).job = "resume"
    /\ LET f == Head(microtasks).frame
           fr == frames[f]
           got == promises[fr.awaiting]
           k == fr.pc
           p == Len(promises) + 1
       IN  /\ fr.fn = "getAllData"
           /\ microtasks' = Tail(microtasks)
           /\ IF got.state = "rejected"
              THEN \* no try/catch: the rejection leaves the async function
                   /\ frames' = [frames EXCEPT ![f] = Throw(fr, got.value)]
                   /\ UNCHANGED <<promises, timers, log>>
              ELSE IF k < Len(GetAllDataIds)
              THEN /\ log' = Append(log, GettingLine(f, GetAllDataIds[k + 1]))
                   /\ promises' = Append(promises,
                          NewPromise("getData", GetAllDataIds[k + 1], <<ResumeJob(f)>>, f))
                   /\ timers' = Append(timers, NewTimer(p, DelayMs))
                   /\ frames' = [frames EXCEPT ![f] =
                          Frame("getAllData", k + 1, p, Undefined,
                                Append(fr.awaited, got.value))]
              ELSE /\ frames' = [frames EXCEPT ![f] =
                          Return([fr EXCEPT !.awaited = Append(@, got.value)],
                                 GetAllDataReturn(Append(fr.awaited, got.value)))]
                   /\ UNCHANGED <<promises, timers, log>>
    /\ UNCHANGED timeoutMs

InitCallsGetAllData ==
    /\ timeoutMs \in Caps
    /\ promises = <<NewPromise("getData", GetAllDataIds[1], <<ResumeJob(1)>>, 1)>>
    /\ timers = <<NewTimer(1, DelayMs)>>
    /\ microtasks = <<>>
    /\ frames = <<Frame("getAllData", 1, 1, Undefined, <<>>)>>
    /\ log = <<GettingLine(1, GetAllDataIds[1])>>

\* script.js evaluated: two function declarations, no call
Init ==
    /\ timeoutMs \in Caps
    /\ promises = <<>>
    /\ timers = <<>>
    /\ microtasks = <<>>
    /\ frames = <<>>
    /\ log = <<>>

\* script.js loaded in a page, its two functions called from outside
Next ==
    \/ CallGetAllData
    \/ \E id \in 1..MaxId : CallGetData(id)
    \/ Tick
    \/ TimerFire
    \/ ResumeGetAllData

Spec == Init /\ [][Next]_vars

---------------------------------------------------------------------------
(* Readme.md: the external fetches *)

\* fetchFromDatabase, fetchUserPosts and fetchPostComments are called but not
\* defined in the repository: each returns a promise that its environment
\* later fulfils with one of these values, or rejects
FetchKinds == {"fetchFromDatabase", "fetchUserPosts", "fetchPostComments"}

Versions == {1, 2}

FetchValues(kind, arg) ==
    CASE kind = "fetchFromDatabase" -> {User(arg, v) : v \in Versions}
      [] kind = "fetchUserPosts" ->
            {Array([k \in 1..n |-> Post(10 * arg + k)]) : n \in 0..MaxPosts}
      [] kind = "fetchPostComments" -> {Array(<<>>), Array(<<Comment(arg)>>)}

FetchError(kind) ==
    CASE kind = "fetchFromDatabase" -> Err("DatabaseError")
      [] kind = "fetchUserPosts" -> Err("PostsError")
      [] kind = "fetchPostComments" -> Err("CommentsError")

\* the environment settles a pending fetch
SettleFetch(p) ==
    /\ promises[p].kind \in FetchKinds
    /\ promises[p].state = "pending"
    /\ \E how \in {[state |-> "rejected", value |-> FetchError(promises[p].kind)]}
                  \cup {[state |-> "fulfilled", value |-> v] :
                           v \in FetchValues(promises[p].kind, promises[p].arg)} :
          promises' = [promises EXCEPT ![p] = Settle(@, how.state, how.value)]
    /\ microtasks' = microtasks \o promises[p].reactions
    /\ UNCHANGED <<timeoutMs, timers, frames, log>>

\* console.error(label, error) and console.warn(text)
ErrorLine(f, label, e) == [line |-> label, id |-> 0, frame |-> f, promise |-> 0, error |-> e]
WarnLine(f, text) == [line |-> text, id |-> 0, frame |-> f, promise |-> 0]

\* what one resumption of an async function does: the frame it leaves, the
\* fetches it calls and the lines it logs
Step(fr, calls, lines) == [frame |-> fr, calls |-> calls, lines |-> lines]

\* the head of the job queue resumes frame f of function fn
Resumes(f, fn) ==
    /\ microtasks # <<>>
    /\ Head(microtasks) = ResumeJob(f)
    /\ f \in 1..Len(frames)
    /\ frames[f].fn = fn

\* one job leaves the queue and does step
Resume(f, step) ==
    /\ microtasks' = Tail(microtasks)
    /\ frames' = [frames EXCEPT ![f] = step.frame]
    /\ promises' = promises \o step.calls
    /\ log' = log \o step.lines
    /\ UNCHANGED <<timeoutMs, timers>>

\* a README function is invoked once in a behaviour
OneInvocation == frames = <<>> /\ promises = <<>>

---------------------------------------------------------------------------
(* Readme.md: getUserData (async/await) *)

\* const user = await fetchFromDatabase(userId) is reached
GetUserDataCalled(userId) ==
    LET f == Len(frames) + 1
        p == Len(promises) + 1
    IN  /\ promises' = Append(promises,
               NewPromise("fetchFromDatabase", userId, <<ResumeJob(f)>>, f))
        /\ frames' = Append(frames, Frame("getUserData", 1, p,
                                          [user |-> Undefined, posts |-> Undefined], <<>>))
        /\ UNCHANGED <<timeoutMs, timers, microtasks, log>>

\* getUserData(userId) called in a program of its own
CallGetUserData(userId) == OneInvocation /\ GetUserDataCalled(userId)

GetUserDataCatchSwallows(f, fr, e) ==
    Step(Return(fr, Undefined), <<>>, <<ErrorLine(f, "Error:", e)>>)

\* catch (error) { console.error("Error:", error); throw error; }
GetUserDataCatch(f, fr, e) ==
    Step(Throw(fr, e), <<>>, <<ErrorLine(f, "Error:", e)>>)

\* getUserData resumed after its pc-th await, the awaited promise being got
\* and p the index the next promise gets
GetUserDataStep(f, fr, got, p) ==
    LET seen == [fr EXCEPT !.awaited = Append(@, got.value)]
    IN  IF got.state = "rejected" THEN GetUserDataCatch(f, fr, got.value)
        ELSE IF fr.pc = 1
        THEN \* const posts = await fetchUserPosts(user.id)
             Step([seen EXCEPT !.pc = 2, !.awaiting = p, !.locals.user = got.value],
                  <<NewPromise("fetchUserPosts", got.value.id, <<ResumeJob(f)>>, f)>>, <<>>)
        ELSE IF fr.pc = 2
        THEN \* const comments = await fetchPostComments(posts[0].id)
             IF Len(got.value.items) = 0
             THEN \* posts[0] is undefined: reading its id throws
                  GetUserDataCatch(f, seen, Err("TypeError"))
             ELSE Step([seen EXCEPT !.pc = 3, !.awaiting = p, !.locals.posts = got.value],
                       <<NewPromise("fetchPostComments", got.value.items[1].id,
                                    <<ResumeJob(f)>>, f)>>, <<>>)
        ELSE \* return { user, posts, comments }
             Step(Return(seen, Obj(fr.locals.user, fr.locals.posts, got.value)), <<>>, <<>>)

ResumeGetUserData ==
    \E f \in 1..Len(frames) :
        /\ Resumes(f, "getUserData")
        /\ Resume(f, GetUserDataStep(f, frames[f], promises[frames[f].awaiting],
                                     Len(promises) + 1))

\* the two sequential chains, each in its own program: script.js is loaded and
\* getAllData called, or the README's getUserData is called
NextSeq ==
    \/ CallGetAllData
    \/ Tick
    \/ TimerFire
    \/ ResumeGetAllData
    \/ \E userId \in 1..MaxId : CallGetUserData(userId)
    \/ \E p \in 1..Len(promises) : SettleFetch(p)
    \/ ResumeGetUserData

SpecSeq == Init /\ [][NextSeq]_vars

---------------------------------------------------------------------------
(* Readme.md: robustGetUserData *)

\* const user = await fetchFromDatabase(userId) is reached
CallRobustGetUserData(userId) ==
    /\ OneInvocation
    /\ promises' = <<NewPromise("fetchFromDatabase", userId, <<ResumeJob(1)>>, 1)>>
    /\ frames' = <<Frame("robustGetUserData", 1, 1,
                         [user |-> Undefined, posts |-> Undefined], <<>>)>>
    /\ UNCHANGED <<timeoutMs, timers, microtasks, log>>

RobustOuterCatchSwallows(f, fr, e) ==
    Step(Return(fr, Undefined), <<>>, <<ErrorLine(f, "Critical error:", e)>>)

\* catch (error) { console.error("Critical error:", error); throw error; }
RobustOuterCatch(f, fr, e) ==
    Step(Throw(fr, e), <<>>, <<ErrorLine(f, "Critical error:", e)>>)

RobustPostsDefaultOnePost == Array(<<Post(0)>>)

\* let posts = []
RobustPostsDefault == Array(<<>>)

\* let comments = []
RobustCommentsDefault == Array(<<>>)

\* from "let comments = []" on, posts being settled: the comments are fetched
\* if there is a post, and the result returned if not
RobustAfterPosts(f, fr, posts, p, lines) ==
    IF Len(posts.items) > 0
    THEN Step([fr EXCEPT !.pc = 3, !.awaiting = p, !.locals.posts = posts],
              <<NewPromise("fetchPostComments", posts.items[1].id, <<ResumeJob(f)>>, f)>>,
              lines)
    ELSE Step(Return(fr, Obj(fr.locals.user, posts, RobustCommentsDefault)), <<>>, lines)

\* robustGetUserData resumed after its pc-th await
RobustStep(f, fr, got, p) ==
    LET seen == [fr EXCEPT !.awaited = Append(@, got.value)]
    IN  IF fr.pc = 1
        THEN IF got.state = "rejected" THEN RobustOuterCatch(f, fr, got.value)
             ELSE \* posts = await fetchUserPosts(user.id)
                  Step([seen EXCEPT !.pc = 2, !.awaiting = p, !.locals.user = got.value],
                       <<NewPromise("fetchUserPosts", got.value.id, <<ResumeJob(f)>>, f)>>,
                       <<>>)
        ELSE IF fr.pc = 2
        THEN IF got.state = "rejected"
             THEN RobustAfterPosts(f, fr, RobustPostsDefault, p,
                      <<WarnLine(f, "Failed to fetch posts, continuing with empty array")>>)
             ELSE RobustAfterPosts(f, seen, got.value, p, <<>>)
        ELSE IF got.state = "rejected"
             THEN Step(Return(fr, Obj(fr.locals.user, fr.locals.posts, RobustCommentsDefault)),
                       <<>>,
                       <<WarnLine(f, "Failed to fetch comments, continuing with empty array")>>)
             ELSE Step(Return(seen, Obj(fr.locals.user, fr.locals.posts, got.value)),
                       <<>>, <<>>)

ResumeRobustGetUserData ==
    \E f \in 1..Len(frames) :
        /\ Resumes(f, "robustGetUserData")
        /\ Resume(f, RobustStep(f, frames[f], promises[frames[f].awaiting],
                                Len(promises) + 1))

NextRobust ==
    \/ \E userId \in 1..MaxId : CallRobustGetUserData(userId)
    \/ \E p \in 1..Len(promises) : SettleFetch(p)
    \/ ResumeRobustGetUserData

SpecRobust == Init /\ [][NextRobust]_vars

---------------------------------------------------------------------------
(* Readme.md: getMultipleUsers *)

\* the reaction Promise.all registers on its index-th element, promise from
AllJob(all, index, from) == [job |-> "allElement", all |-> all, index |-> index, from |-> from]

\* the promise Promise.all returns for n elements: the values collected so
\* far and the number of elements still awaited; of no elements, it is
\* already fulfilled with []
NewAll(n, reactions, caller) ==
    LET a == NewPromise("Promise.all", n, reactions, caller) @@
                 [values |-> [i \in 1..n |-> Undefined], remaining |-> n]
    IN  IF n = 0 THEN Settle(a, "fulfilled", Array(<<>>)) ELSE a

\* the lists of user ids getMultipleUsers is given
IdLists == UNION {[1..n -> 1..MaxId] : n \in 0..MaxLen}

\* getMultipleUsers(userIds) called: map calls fetchFromDatabase for every id,
\* Promise.all registers its reactions, and the function suspends at its await
CallGetMultipleUsers(userIds) ==
    /\ OneInvocation
    /\ LET n == Len(userIds)
           all == n + 1
       IN  /\ promises' =
                  [i \in 1..n |->
                      NewPromise("fetchFromDatabase", userIds[i], <<AllJob(all, i, i)>>, 1)]
                  \o <<NewAll(n, IF n = 0 THEN <<>> ELSE <<ResumeJob(1)>>, 1)>>
           /\ frames' = <<Frame("getMultipleUsers", 1, all,
                                [userIds |-> userIds, userPromises |-> [i \in 1..n |-> i]],
                                <<>>)>>
           \* awaiting a promise that is already settled queues the continuation at once
           /\ microtasks' = IF n = 0 THEN Append(microtasks, ResumeJob(1)) ELSE microtasks
    /\ UNCHANGED <<timeoutMs, timers, log>>

PlaceInCompletionOrder(values, index, v) ==
    LET free == {i \in 1..Len(values) : values[i] = Undefined}
    IN  [values EXCEPT ![CHOOSE i \in free : \A j \in free : i <= j] = v]

\* Promise.all stores the value of its index-th element at that index
Place(values, index, v) == [values EXCEPT ![index] = v]

RejectAllCancelsSiblings(all, e) ==
    [q \in 1..Len(promises) |->
        IF q = all THEN Settle(promises[q], "rejected", e)
        ELSE IF promises[q].kind = "fetchFromDatabase" /\ promises[q].state = "pending"
        THEN [promises[q] EXCEPT !.state = "cancelled"]
        ELSE promises[q]]

\* an element was rejected: the promise of Promise.all is rejected with its
\* reason, and no other promise is touched
RejectAll(all, e) == [promises EXCEPT ![all] = Settle(@, "rejected", e)]

\* an element was fulfilled: its value is placed, and with the last element
\* the promise of Promise.all is fulfilled with the values
ResolveElement(all, index, v) ==
    LET a == promises[all]
        values == Place(a.values, index, v)
        b == [a EXCEPT !.values = values, !.remaining = @ - 1]
    IN  [promises EXCEPT ![all] =
            IF b.remaining = 0 THEN Settle(b, "fulfilled", Array(values)) ELSE b]

\* a reaction of Promise.all runs
AllElementJob ==
    /\ microtasks # <<>>
    /\ Head(microtasks).job = "allElement"
    /\ LET j == Head(microtasks)
           from == promises[j.from]
       IN  /\ promises' = IF from.state = "fulfilled"
                          THEN ResolveElement(j.all, j.index, from.value)
                          ELSE RejectAll(j.all, from.value)
           \* the jobs of the promise of Promise.all, if this settles it
           /\ microtasks' = Tail(microtasks) \o
                  (IF promises'[j.all].state # promises[j.all].state
                   THEN promises[j.all].reactions ELSE <<>>)
    /\ UNCHANGED <<timeoutMs, timers, frames, log>>

\* getMultipleUsers resumed after "await Promise.all(userPromises)"
GetMultipleUsersStep(f, fr, got, p) ==
    IF got.state = "rejected"
    THEN \* catch (error) { console.error("Error:", error); throw error; }
         Step(Throw(fr, got.value), <<>>, <<ErrorLine(f, "Error:", got.value)>>)
    ELSE \* return users
         Step(Return([fr EXCEPT !.awaited = Append(@, got.value)], got.value), <<>>, <<>>)

ResumeGetMultipleUsers ==
    \E f \in 1..Len(frames) :
        /\ Resumes(f, "getMultipleUsers")
        /\ Resume(f, GetMultipleUsersStep(f, frames[f], promises[frames[f].awaiting],
                                          Len(promises) + 1))

NextMulti ==
    \/ \E userIds \in IdLists : CallGetMultipleUsers(userIds)
    \/ \E p \in 1..Len(promises) : SettleFetch(p)
    \/ AllElementJob
    \/ ResumeGetMultipleUsers

SpecMulti == Init /\ [][NextMulti]_vars

---------------------------------------------------------------------------
(* Readme.md: promise chains (then / catch) *)

\* the reaction p.then(onFulfilled, onRejected) registers on promise from; to
\* is the promise then returns, and "" stands for a handler that is not given
ThenJob(f, from, to, onFulfilled, onRejected) ==
    [job |-> "then", frame |-> f, from |-> from, to |-> to,
     onFulfilled |-> onFulfilled, onRejected |-> onRejected]

\* the job that resolves promise to with the promise from a handler returned
ThenableJob(f, from, to) == [job |-> "thenable", frame |-> f, from |-> from, to |-> to]

\* how a handler ends: it returns a value, throws, or returns promise q
Returns(v) == [how |-> "return", value |-> v, promise |-> 0]
Throws(e) == [how |-> "throw", value |-> e, promise |-> 0]
ReturnsPromise(q) == [how |-> "promise", value |-> Undefined, promise |-> q]

\* what one run of a handler does: the frame (the variables it closes over)
\* it leaves, the promises it creates, the lines it logs and how it ends
Ran(fr, calls, lines, result) ==
    [frame |-> fr, calls |-> calls, lines |-> lines, result |-> result]

\* the handler the then-reaction at the head of the job queue runs ("": it has
\* none for the state of its source), and the argument the handler gets
ReactionName ==
    IF promises[Head(microtasks).from].state = "fulfilled"
    THEN Head(microtasks).onFulfilled ELSE Head(microtasks).onRejected
ReactionValue == promises[Head(microtasks).from].value

\* the head of the job queue is a then-reaction of frame f: the handler for
\* the state of the source runs, ran being what it does, and settles the
\* promise then returned; without a handler that promise takes the state and
\* value of the source
ThenJobRuns(f, ran) ==
    /\ microtasks # <<>>
    /\ Head(microtasks).job = "then"
    /\ Head(microtasks).frame = f
    /\ LET j == Head(microtasks)
           src == promises[j.from]
           did == IF ReactionName = ""
                  THEN Ran(frames[f], <<>>, <<>>,
                           IF src.state = "fulfilled" THEN Returns(src.value)
                           ELSE Throws(src.value))
                  ELSE ran
           settles == did.result.how # "promise"
       IN  /\ promises' =
                  [promises EXCEPT ![j.to] =
                      IF settles
                      THEN Settle(@, IF did.result.how = "return" THEN "fulfilled"
                                     ELSE "rejected", did.result.value)
                      ELSE @]
                  \o did.calls
           /\ microtasks' = Tail(microtasks) \o
                  (IF settles THEN promises[j.to].reactions
                   ELSE <<ThenableJob(f, did.result.promise, j.to)>>)
           /\ frames' = [frames EXCEPT ![f] = did.frame]
           /\ log' = log \o did.lines
    /\ UNCHANGED <<timeoutMs, timers>>

\* a promise resolved with another promise follows it: a reaction without
\* handlers is registered on that promise, or queued if it is settled
RunThenableJob ==
    /\ microtasks # <<>>
    /\ Head(microtasks).job = "thenable"
    /\ LET j == Head(microtasks)
           follow == ThenJob(j.frame, j.from, j.to, "", "")
       IN  IF promises[j.from].state = "pending"
           THEN /\ promises' = [promises EXCEPT ![j.from].reactions = Append(@, follow)]
                /\ microtasks' = Tail(microtasks)
           ELSE /\ microtasks' = Append(Tail(microtasks), follow)
                /\ UNCHANGED promises
    /\ UNCHANGED <<timeoutMs, timers, frames, log>>

\* what the caller of frame f holds: the promise of an async function, or
\* the promise a chain of then calls returned
Outcome(f) ==
    IF frames[f].fn \in {"getUserDataBetter", "getUserDataPromise"}
    THEN [state |-> promises[frames[f].locals.result].state,
          value |-> promises[frames[f].locals.result].value]
    ELSE [state |-> frames[f].state, value |-> frames[f].value]

---------------------------------------------------------------------------
(* Readme.md: getUserDataBetter *)

\* getUserDataBetter(userId) called: the fetch is issued and the chain
\* .then(user).then(posts).then(comments).catch(error) is built; the promise
\* of catch is returned
CallGetUserDataBetter(userId) ==
    /\ OneInvocation
    /\ promises' =
           << NewPromise("fetchFromDatabase", userId, <<ThenJob(1, 1, 2, "user", "")>>, 1),
              NewPromise("then", 0, <<ThenJob(1, 2, 3, "posts", "")>>, 1),
              NewPromise("then", 0, <<ThenJob(1, 3, 4, "comments", "")>>, 1),
              NewPromise("then", 0, <<ThenJob(1, 4, 5, "", "catch")>>, 1),
              NewPromise("then", 0, <<>>, 1) >>
    /\ frames' = <<Frame("getUserDataBetter", 0, 0,
                         [userData |-> [user |-> Undefined, posts |-> Undefined,
                                        comments |-> Undefined],
                          result |-> 5], <<>>)>>
    /\ UNCHANGED <<timeoutMs, timers, microtasks, log>>

BetterCatchReturnsUserData(f, fr, e) ==
    Ran(fr, <<>>, <<ErrorLine(f, "Error:", e)>>,
        Returns(Obj(fr.locals.userData.user, fr.locals.userData.posts,
                    fr.locals.userData.comments)))

\* .catch((error) => { console.error("Error:", error); throw error; })
BetterCatch(f, fr, e) == Ran(fr, <<>>, <<ErrorLine(f, "Error:", e)>>, Throws(e))

\* the handlers of getUserDataBetter: handler name of frame f (its closure
\* variables in fr) called with v, p being the index the next promise gets
BetterHandler(f, fr, name, v, p) ==
    CASE name = "user" ->
            \* userData.user = user; return fetchUserPosts(user.id)
            Ran([fr EXCEPT !.locals.userData.user = v],
                <<NewPromise("fetchUserPosts", v.id, <<>>, f)>>, <<>>, ReturnsPromise(p))
      [] name = "posts" ->
            \* userData.posts = posts; return fetchPostComments(posts[0].id)
            IF Len(v.items) = 0
            THEN \* posts[0] is undefined: reading its id throws
                 Ran([fr EXCEPT !.locals.userData.posts = v], <<>>, <<>>,
                     Throws(Err("TypeError")))
            ELSE Ran([fr EXCEPT !.locals.userData.posts = v],
                     <<NewPromise("fetchPostComments", v.items[1].id, <<>>, f)>>, <<>>,
                     ReturnsPromise(p))
      [] name = "comments" ->
            \* userData.comments = comments; return userData
            Ran([fr EXCEPT !.locals.userData.comments = v], <<>>, <<>>,
                Returns(Obj(fr.locals.userData.user, fr.locals.userData.posts, v)))
      [] name = "catch" -> BetterCatch(f, fr, v)

RunGetUserDataBetterJob ==
    \E f \in 1..Len(frames) :
        /\ frames[f].fn = "getUserDataBetter"
        /\ ThenJobRuns(f, BetterHandler(f, frames[f], ReactionName, ReactionValue,
                                        Len(promises) + 1))

\* the README's strict and parallel compositions, one of them called once
NextReadme ==
    \/ \E userId \in 1..MaxId : CallGetUserData(userId)
    \/ \E userId \in 1..MaxId : CallGetUserDataBetter(userId)
    \/ \E userIds \in IdLists : CallGetMultipleUsers(userIds)
    \/ \E p \in 1..Len(promises) : SettleFetch(p)
    \/ ResumeGetUserData
    \/ RunGetUserDataBetterJob
    \/ RunThenableJob
    \/ AllElementJob
    \/ ResumeGetMultipleUsers

SpecReadme == Init /\ [][NextReadme]_vars

---------------------------------------------------------------------------
(* Readme.md: getUserData, the three variants side by side *)

\* the job that runs the callback passed to a callback-style fetch
CallbackJob(f, from) == [job |-> "callback", frame |-> f, from |-> from]

\* an exception leaves a callback the event loop called: nobody catches it,
\* and the caller's callback is never called
Uncaught(fr, e) == [fr EXCEPT !.state = "uncaught", !.value = e, !.pc = 0, !.awaiting = 0]

\* getUserData(userId, callback) called: fetchFromDatabase(userId, function...)
GetUserDataCallbackCalled(userId) ==
    LET f == Len(frames) + 1
        p == Len(promises) + 1
    IN  /\ promises' = Append(promises,
               NewPromise("fetchFromDatabase", userId, <<CallbackJob(f, p)>>, f))
        /\ frames' = Append(frames, Frame("getUserDataCallback", 1, p,
                                          [user |-> Undefined, posts |-> Undefined], <<>>))
        /\ UNCHANGED <<timeoutMs, timers, microtasks, log>>

\* the callback of the pc-th fetch called with (error, value) of got; a frame
\* that is fulfilled or rejected stands for callback(null, value) or
\* callback(error, null) having been called
CallbackStep(f, fr, got, p) ==
    IF got.state = "rejected"
    THEN \* if (error) { callback(error, null); return; }
         Step(Throw(fr, got.value), <<>>, <<>>)
    ELSE IF fr.pc = 1
    THEN \* fetchUserPosts(user.id, function (error, posts) ...)
         Step([fr EXCEPT !.pc = 2, !.awaiting = p, !.locals.user = got.value],
              <<NewPromise("fetchUserPosts", got.value.id, <<CallbackJob(f, p)>>, f)>>, <<>>)
    ELSE IF fr.pc = 2
    THEN \* fetchPostComments(posts[0].id, function (error, comments) ...)
         IF Len(got.value.items) = 0
         THEN \* posts[0] is undefined: reading its id throws, outside any try
              Step(Uncaught(fr, Err("TypeError")), <<>>, <<>>)
         ELSE Step([fr EXCEPT !.pc = 3, !.awaiting = p, !.locals.posts = got.value],
                   <<NewPromise("fetchPostComments", got.value.items[1].id,
                                <<CallbackJob(f, p)>>, f)>>, <<>>)
    ELSE \* callback(null, { user, posts, comments })
         Step(Return(fr, Obj(fr.locals.user, fr.locals.posts, got.value)), <<>>, <<>>)

RunCallback ==
    /\ microtasks # <<>>
    /\ Head(microtasks).job = "callback"
    /\ LET f == Head(microtasks).frame
       IN  Resume(f, CallbackStep(f, frames[f], promises[Head(microtasks).from],
                                  Len(promises) + 1))

\* getUserData(userId) of the promise variant called:
\* return fetchFromDatabase(userId).then((user) => ...)
GetUserDataPromiseCalled(userId) ==
    LET f == Len(frames) + 1
        p == Len(promises) + 1
    IN  /\ promises' = promises \o
               << NewPromise("fetchFromDatabase", userId,
                             <<ThenJob(f, p, p + 1, "user", "")>>, f),
                  NewPromise("then", 0, <<>>, f) >>
        /\ frames' = Append(frames, Frame("getUserDataPromise", 0, 0,
                                          [user |-> Undefined, posts |-> Undefined,
                                           result |-> p + 1], <<>>))
        /\ UNCHANGED <<timeoutMs, timers, microtasks, log>>

\* the nested handlers of the promise variant; user and posts are the
\* parameters of the enclosing handlers
PromiseHandler(f, fr, name, v, p) ==
    CASE name = "user" ->
            \* return fetchUserPosts(user.id).then((posts) => ...)
            Ran([fr EXCEPT !.locals.user = v],
                << NewPromise("fetchUserPosts", v.id,
                              <<ThenJob(f, p, p + 1, "posts", "")>>, f),
                   NewPromise("then", 0, <<>>, f) >>, <<>>, ReturnsPromise(p + 1))
      [] name = "posts" ->
            \* return fetchPostComments(posts[0].id).then((comments) => ...)
            IF Len(v.items) = 0
            THEN \* posts[0] is undefined: reading its id throws
                 Ran([fr EXCEPT !.locals.posts = v], <<>>, <<>>, Throws(Err("TypeError")))
            ELSE Ran([fr EXCEPT !.locals.posts = v],
                     << NewPromise("fetchPostComments", v.items[1].id,
                                   <<ThenJob(f, p, p + 1, "comments", "")>>, f),
                        NewPromise("then", 0, <<>>, f) >>, <<>>, ReturnsPromise(p + 1))
      [] name = "comments" ->
            \* return { user, posts, comments }
            Ran(fr, <<>>, <<>>, Returns(Obj(fr.locals.user, fr.locals.posts, v)))

RunGetUserDataPromiseJob ==
    \E f \in 1..Len(frames) :
        /\ frames[f].fn = "getUserDataPromise"
        /\ ThenJobRuns(f, PromiseHandler(f, frames[f], ReactionName, ReactionValue,
                                         Len(promises) + 1))

Variants == {"getUserDataCallback", "getUserDataPromise", "getUserData"}

\* the caller of frame f has its outcome, or will never get one
Finished(f) == Outcome(f).state # "pending" \/ frames[f].state # "pending"

\* a variant is called once the variants called before have finished, each
\* variant once, all with the same userId
CallVariant(fn, userId) ==
    /\ \A g \in 1..Len(frames) : frames[g].fn \in Variants \ {fn} /\ Finished(g)
    /\ microtasks = <<>>
    /\ promises # <<>> => promises[1].arg = userId
    /\ CASE fn = "getUserDataCallback" -> GetUserDataCallbackCalled(userId)
         [] fn = "getUserDataPromise" -> GetUserDataPromiseCalled(userId)
         [] fn = "getUserData" -> GetUserDataCalled(userId)

\* the fetches read one database: a query made before gets the answer it got
\* before, a new query any answer
AnswerFetch(p) ==
    /\ SettleFetch(p)
    /\ \A q \in 1..Len(promises) :
          (promises[q].kind = promises[p].kind /\ promises[q].arg = promises[p].arg
              /\ promises[q].state # "pending") =>
              /\ promises'[p].state = promises[q].state
              /\ promises'[p].value = promises[q].value

NextVariants ==
    \/ \E fn \in Variants, userId \in 1..MaxId : CallVariant(fn, userId)
    \/ \E p \in 1..Len(promises) : AnswerFetch(p)
    \/ RunCallback
    \/ RunGetUserDataPromiseJob
    \/ RunThenableJob
    \/ ResumeGetUserData

SpecVariants == Init /\ [][NextVariants]_vars

---------------------------------------------------------------------------
(* Properties of practice/script.js *)

\* the fetches frame f has issued, in the order of the calls
FetchesOf(f) ==
    LET S == {p \in 1..Len(promises) :
                 promises[p].caller = f /\ promises[p].kind \in FetchKinds \cup {"getData"}}
    IN  CHOOSE s \in [1..Cardinality(S) -> S] : \A i, j \in 1..Cardinality(S) : i < j => s[i] < s[j]

\* the console lines of one run, oldest first
RunLines(f) == SelectSeq(log, LAMBDA l : l.frame = f)

ExpectedLines ==
    << <<"getting data", 1>>, <<"data", 1>>, <<"getting data", 2>>, <<"data", 2>>,
       <<"getting data", 3>>, <<"data", 3>> >>

\* C1: the lines a run of getAllData has logged are at every moment a prefix of
\* "getting data 1", "data 1", "getting data 2", "data 2", "getting data 3",
\* "data 3" (so "data k" precedes "getting data k+1" and "data k+1"), and a
\* fulfilled run has logged all six
C1_LogOrder ==
    \A f \in 1..Len(frames) :
        frames[f].fn = "getAllData" =>
            LET ls == RunLines(f)
            IN  /\ Len(ls) <= Len(ExpectedLines)
                /\ \A i \in 1..Len(ls) : <<ls[i].line, ls[i].id>> = ExpectedLines[i]
                /\ frames[f].state = "fulfilled" => Len(ls) = Len(ExpectedLines)

\* a run has fulfilled while another invocation's lines share the console
C1_Witness ==
    \E f \in 1..Len(frames) :
        /\ frames[f].fn = "getAllData" /\ frames[f].state = "fulfilled"
        /\ Len(RunLines(f)) = Len(ExpectedLines)
        /\ Len(log) > Len(ExpectedLines)

\* C2 as stated: a fulfilled getAllData delivers the list [200, 200, 200]
C2_Original ==
    \A f \in 1..Len(frames) :
        (frames[f].fn = "getAllData" /\ frames[f].state = "fulfilled") =>
            frames[f].value = Array(<<Num(200), Num(200), Num(200)>>)

\* C2 (amended): when getAllData fulfils it has obtained from getData(1),
\* getData(2), getData(3), in that order, one value per id, each 200, but it
\* delivers none of them: it fulfils with undefined
C2_FulfilsWithUndefined ==
    \A f \in 1..Len(frames) :
        (frames[f].fn = "getAllData" /\ frames[f].state = "fulfilled") =>
            /\ frames[f].value = Undefined
            /\ frames[f].awaited = <<Num(200), Num(200), Num(200)>>
            /\ Len(FetchesOf(f)) = Len(GetAllDataIds)
            /\ \A k \in 1..Len(GetAllDataIds) :
                  /\ promises[FetchesOf(f)[k]].arg = GetAllDataIds[k]
                  /\ promises[FetchesOf(f)[k]].value = frames[f].awaited[k]

C2_Witness ==
    \E f \in 1..Len(frames) :
        /\ frames[f].fn = "getAllData" /\ frames[f].state = "fulfilled"
        /\ Len(frames[f].awaited) = Len(GetAllDataIds)

\* C3: a getData promise changes state only by fulfilling with 200, in the step
\* in which its timer, due after the full delay, runs and logs "data id"
C3_FulfilsAfterTimer ==
    [][\A p \in 1..Len(promises) :
          (promises[p].kind = "getData" /\ promises'[p] # promises[p]) =>
              /\ promises[p].state = "pending"
              /\ promises'[p].state = "fulfilled"
              /\ promises'[p].value = Num(200)
              /\ \E i \in 1..Len(timers) : timers[i].promise = p /\ timers[i].remaining = 0
              /\ \A i \in 1..Len(timers') : timers'[i].promise # p
              /\ log' = Append(log, [line |-> "data", id |-> promises[p].arg,
                                     frame |-> promises[p].caller, promise |-> p])]_vars

C3_Witness ==
    \E p \in 1..Len(promises) :
        /\ promises[p].kind = "getData" /\ promises[p].state = "fulfilled"
        /\ promises[p].value = Num(200)
        /\ \E i \in 1..Len(log) : log[i].line = "data" /\ log[i].promise = p

\* C4 as stated: getData(id) resolves to id
C4_Original ==
    \A p \in 1..Len(promises) :
        (promises[p].kind = "getData" /\ promises[p].state = "fulfilled") =>
            promises[p].value = Num(promises[p].arg)

\* C4 (amended): the value of a resolved fetch is deterministic and does not
\* depend on the request id: every getData(id) resolves to 200, so any two
\* calls, with the same id or not, resolve to the same value
C4_ConstantValue ==
    \A p, q \in 1..Len(promises) :
        (/\ promises[p].kind = "getData" /\ promises[p].state = "fulfilled"
         /\ promises[q].kind = "getData" /\ promises[q].state = "fulfilled") =>
            /\ promises[p].value = promises[q].value
            /\ promises[p].value = Num(200)

\* two calls with the same id, and two with different ids, have resolved
C4_Witness ==
    /\ \E p, q \in 1..Len(promises) :
          /\ p # q /\ promises[p].arg = promises[q].arg
          /\ promises[p].kind = "getData" /\ promises[p].state = "fulfilled"
          /\ promises[q].kind = "getData" /\ promises[q].state = "fulfilled"

\* C6 as stated: under a cap below the 3000 ms delay no fetch delivers a value
C6_Original ==
    timeoutMs < DelayMs =>
        \A p \in 1..Len(promises) :
            promises[p].kind = "getData" => promises[p].state # "fulfilled"

\* C6 (amended): getData takes no timeout cap. Whatever cap the caller has in
\* mind, 1000 ms included, a fetch is never rejected, with TimeoutError or
\* anything else: it is pending while its timer is registered and fulfilled
\* once the timer has run
C6_NoTimeout ==
    \A p \in 1..Len(promises) :
        promises[p].kind = "getData" =>
            /\ promises[p].state \in {"pending", "fulfilled"}
            /\ promises[p].state = "pending" <=>
                  \E i \in 1..Len(timers) : timers[i].promise = p

C6_Witness ==
    /\ timeoutMs < DelayMs
    /\ \E p \in 1..Len(promises) :
          /\ promises[p].kind = "getData" /\ promises[p].caller = 0
          /\ promises[p].state = "fulfilled"

---------------------------------------------------------------------------
(* Properties of the README's chains *)

\* the continuation of frame f is in the job queue
Queued(f) == \E i \in 1..Len(microtasks) : microtasks[i] = ResumeJob(f)

\* C5: in getAllData and in the async/await getUserData, a fetch that has
\* failed is the last one the run issued (the k-th failing, k fetches were
\* called), the run never fulfils, and once its continuation has run it is
\* rejected with that fetch's error
C5_FailureStopsChain ==
    \A f \in 1..Len(frames) :
        frames[f].fn \in {"getAllData", "getUserData"} =>
            LET ps == FetchesOf(f)
            IN  \A k \in 1..Len(ps) :
                    promises[ps[k]].state = "rejected" =>
                        /\ k = Len(ps)
                        /\ frames[f].state # "fulfilled"
                        /\ frames[f].state = "pending" => Queued(f)
                        /\ frames[f].state = "rejected" =>
                              frames[f].value = promises[ps[k]].value

\* the second fetch of getUserData failed and the run is rejected
C5_Witness ==
    \E f \in 1..Len(frames) :
        /\ frames[f].fn = "getUserData" /\ frames[f].state = "rejected"
        /\ Len(FetchesOf(f)) = 2
        /\ promises[FetchesOf(f)[2]].state = "rejected"
        /\ frames[f].value = Err("PostsError")

\* C7: in robustGetUserData, once fetchFromDatabase has succeeded and
\* fetchUserPosts has failed, fetchPostComments is never called and the run
\* fulfils with the user of stage 1, posts [] and comments []
C7_PostsFailureTolerated ==
    \A f \in 1..Len(frames) :
        frames[f].fn = "robustGetUserData" =>
            LET ps == FetchesOf(f)
            IN  (Len(ps) >= 2 /\ promises[ps[2]].state = "rejected") =>
                    /\ promises[ps[1]].state = "fulfilled"
                    /\ promises[ps[2]].kind = "fetchUserPosts"
                    /\ Len(ps) = 2
                    /\ frames[f].state \in {"pending", "fulfilled"}
                    /\ frames[f].state = "pending" => Queued(f)
                    /\ frames[f].state = "fulfilled" =>
                          frames[f].value =
                              Obj(promises[ps[1]].value, Array(<<>>), Array(<<>>))

C7_Witness ==
    \E f \in 1..Len(frames) :
        /\ frames[f].fn = "robustGetUserData" /\ frames[f].state = "fulfilled"
        /\ Len(FetchesOf(f)) = 2
        /\ promises[FetchesOf(f)[2]].state = "rejected"
        /\ frames[f].value.posts = Array(<<>>)

\* no fetch of frame f is pending and no job is queued
Quiescent(f) ==
    /\ microtasks = <<>>
    /\ \A k \in 1..Len(FetchesOf(f)) : promises[FetchesOf(f)[k]].state # "pending"

\* C8: robustGetUserData is rejected exactly when fetchFromDatabase failed, and
\* then neither other fetch was called; when fetchFromDatabase succeeded the
\* run, whatever the posts and comments stages do, ends fulfilled with an
\* object holding that user, a posts list and a comments list
C8_OnlyFirstStageFatal ==
    \A f \in 1..Len(frames) :
        frames[f].fn = "robustGetUserData" =>
            LET ps == FetchesOf(f)
                first == promises[ps[1]]
            IN  /\ first.kind = "fetchFromDatabase"
                /\ frames[f].state = "rejected" =>
                      first.state = "rejected" /\ frames[f].value = first.value
                /\ first.state = "rejected" =>
                      /\ Len(ps) = 1
                      /\ frames[f].state # "fulfilled"
                      /\ frames[f].state = "pending" => Queued(f)
                /\ frames[f].state = "fulfilled" =>
                      /\ first.state = "fulfilled"
                      /\ frames[f].value.t = "object"
                      /\ frames[f].value.user = first.value
                      /\ frames[f].value.posts.t = "array"
                      /\ frames[f].value.comments.t = "array"
                /\ (first.state = "fulfilled" /\ Quiescent(f)) =>
                      frames[f].state = "fulfilled"

\* fulfilled although the comments stage, issued for a non-empty posts list, failed
C8_Witness ==
    \E f \in 1..Len(frames) :
        /\ frames[f].fn = "robustGetUserData" /\ frames[f].state = "fulfilled"
        /\ Len(FetchesOf(f)) = 3
        /\ promises[FetchesOf(f)[3]].state = "rejected"
        /\ Len(frames[f].value.posts.items) > 0
        /\ frames[f].value.comments = Array(<<>>)

---------------------------------------------------------------------------
(* Properties of getMultipleUsers *)

\* C9: when getMultipleUsers fulfils, its value is a list as long as userIds
\* whose i-th element is the value the fetch for userIds[i] was fulfilled
\* with, in whatever order the fetches completed
C9_ResultByIndex ==
    \A f \in 1..Len(frames) :
        (frames[f].fn = "getMultipleUsers" /\ frames[f].state = "fulfilled") =>
            LET ids == frames[f].locals.userIds
                ps == FetchesOf(f)
            IN  /\ frames[f].value.t = "array"
                /\ Len(frames[f].value.items) = Len(ids)
                /\ Len(ps) = Len(ids)
                /\ \A i \in 1..Len(ids) :
                      /\ promises[ps[i]].arg = ids[i]
                      /\ promises[ps[i]].state = "fulfilled"
                      /\ frames[f].value.items[i] = promises[ps[i]].value

\* fulfilled with two different values, the second fetch having completed first
C9_Witness ==
    \E f \in 1..Len(frames) :
        /\ frames[f].fn = "getMultipleUsers" /\ frames[f].state = "fulfilled"
        /\ Len(frames[f].value.items) >= 2
        /\ frames[f].value.items[1] # frames[f].value.items[2]
        /\ promises[FetchesOf(f)[2]].order < promises[FetchesOf(f)[1]].order

\* C10: from the call on (so before the await) getMultipleUsers has issued one
\* fetch per id; no fetch is ever cancelled: each is pending, fulfilled or
\* rejected; the run fulfils only if every fetch was fulfilled, and once a
\* fetch has failed and the queued jobs have run it is rejected, with the
\* error of a failed fetch, while the siblings stay as they are
C10_AllIssuedNoneCancelled ==
    \A f \in 1..Len(frames) :
        frames[f].fn = "getMultipleUsers" =>
            LET ids == frames[f].locals.userIds
                ps == FetchesOf(f)
                failed == {k \in 1..Len(ps) : promises[ps[k]].state = "rejected"}
            IN  /\ Len(ps) = Len(ids)
                /\ \A k \in 1..Len(ps) :
                      promises[ps[k]].state \in {"pending", "fulfilled", "rejected"}
                /\ frames[f].state = "fulfilled" => failed = {}
                /\ (failed # {} /\ microtasks = <<>>) => frames[f].state = "rejected"
                /\ frames[f].state = "rejected" =>
                      \E k \in failed :
                          /\ frames[f].value = promises[ps[k]].value
                          /\ \A j \in failed : promises[ps[k]].order <= promises[ps[j]].order

\* the run was rejected while a sibling fetch was in flight, and that sibling
\* was fulfilled afterwards
C10_Witness ==
    \E f \in 1..Len(frames) :
        /\ frames[f].fn = "getMultipleUsers" /\ frames[f].state = "rejected"
        /\ \E k \in 1..Len(FetchesOf(f)) :
              /\ promises[FetchesOf(f)[k]].state = "fulfilled"
              /\ \E a \in 1..Len(promises) :
                    /\ promises[a].kind = "Promise.all" /\ promises[a].caller = f
                    /\ promises[a].state = "rejected"
                    /\ promises[FetchesOf(f)[k]].order > promises[a].order

---------------------------------------------------------------------------
(* Properties of the README's compositions *)

\* C11: the caller of getUserData (async/await), getUserDataBetter or
\* getMultipleUsers holds either the complete result, built from the values
\* of all the fetches, every one of them fulfilled, or one error; a run in
\* which a fetch failed never fulfils, so no result holds only the values
\* obtained before a failure
C11_NoPartialResult ==
    \A f \in 1..Len(frames) :
        frames[f].fn \in {"getUserData", "getUserDataBetter", "getMultipleUsers"} =>
            LET o == Outcome(f)
                ps == FetchesOf(f)
                n == IF frames[f].fn = "getMultipleUsers"
                     THEN Len(frames[f].locals.userIds) ELSE 3
            IN  /\ o.state = "fulfilled" =>
                      /\ Len(ps) = n
                      /\ \A k \in 1..n : promises[ps[k]].state = "fulfilled"
                      /\ o.value =
                            IF frames[f].fn = "getMultipleUsers"
                            THEN Array([k \in 1..n |-> promises[ps[k]].value])
                            ELSE Obj(promises[ps[1]].value, promises[ps[2]].value,
                                     promises[ps[3]].value)
                /\ o.state = "rejected" => o.value.t = "error"
                /\ (\E k \in 1..Len(ps) : promises[ps[k]].state = "rejected") =>
                      o.state # "fulfilled"

\* getUserDataBetter is rejected with the error of the comments fetch, the
\* user and the posts it had collected staying in its own userData
C11_Witness ==
    \E f \in 1..Len(frames) :
        /\ frames[f].fn = "getUserDataBetter"
        /\ Outcome(f) = [state |-> "rejected", value |-> Err("CommentsError")]
        /\ frames[f].locals.userData.user.t = "user"
        /\ frames[f].locals.userData.posts.t = "array"

---------------------------------------------------------------------------
(* Further properties of practice/script.js *)

\* the event loop keeps going: time passes while a timer is waiting, a due
\* timer's callback runs once the job queue is empty, and queued jobs run
FairSpec == Spec /\ WF_vars(Tick) /\ WF_vars(TimerFire) /\ WF_vars(ResumeGetAllData)

\* the "data" lines the timer callback of promise p has logged, one per call of resolve
ResolveCalls(l, p) == Cardinality({i \in 1..Len(l) : l[i].line = "data" /\ l[i].promise = p})

\* C12: in every step, a new promise (of getData or of getAllData) is
\* pending, a promise is pending, fulfilled or rejected, a settled promise
\* keeps its state and its value, and resolve is called at most once for a
\* promise
C12_SettledOnce ==
    [][/\ Len(promises') >= Len(promises)
       /\ Len(frames') >= Len(frames)
       /\ \A p \in 1..Len(promises') :
             /\ promises'[p].state \in {"pending", "fulfilled", "rejected"}
             /\ p > Len(promises) => promises'[p].state = "pending"
             /\ (p <= Len(promises) /\ promises[p].state # "pending") =>
                   /\ promises'[p].state = promises[p].state
                   /\ promises'[p].value = promises[p].value
             /\ ResolveCalls(log', p) <= 1
       /\ \A f \in 1..Len(frames') :
             /\ frames'[f].state \in {"pending", "fulfilled", "rejected"}
             /\ f > Len(frames) => frames'[f].state = "pending"
             /\ (f <= Len(frames) /\ frames[f].state # "pending") =>
                   /\ frames'[f].state = frames[f].state
                   /\ frames'[f].value = frames[f].value]_vars

\* a run and its fetches are settled while another fetch is still pending
C12_Witness ==
    /\ \E f \in 1..Len(frames) : frames[f].state = "fulfilled"
    /\ \E p \in 1..Len(promises) : promises[p].state = "fulfilled"
    /\ \E p \in 1..Len(promises) : promises[p].state = "pending"

\* the ids one run has passed to getData, and the values its fetches gave
FetchArgs(f) == [k \in 1..Len(FetchesOf(f)) |-> promises[FetchesOf(f)[k]].arg]
FetchResults(f) == [k \in 1..Len(FetchesOf(f)) |-> promises[FetchesOf(f)[k]].value]

IsPrefix(s, t) == Len(s) <= Len(t) /\ \A i \in 1..Len(s) : s[i] = t[i]

\* C13: of two invocations of getAllData, run in sequence or overlapping,
\* (a) two that have fulfilled have equal results, from equal fetch results;
\* (b) in every interleaving each run's own lines are a prefix of its request
\* order and its fetches a prefix of 1, 2, 3; (c) a step that advances one run
\* leaves the other run's frame, fetches and lines as they were
C13_Independent ==
    /\ [](\A f, g \in 1..Len(frames) :
            (frames[f].fn = "getAllData" /\ frames[g].fn = "getAllData" /\ f # g) =>
                /\ (frames[f].state = "fulfilled" /\ frames[g].state = "fulfilled") =>
                      /\ frames[f].value = frames[g].value
                      /\ FetchResults(f) = FetchResults(g)
                      /\ FetchArgs(f) = FetchArgs(g)
                /\ IsPrefix(FetchArgs(f), GetAllDataIds)
                /\ IsPrefix([i \in 1..Len(RunLines(f)) |->
                                <<RunLines(f)[i].line, RunLines(f)[i].id>>], ExpectedLines))
    /\ [][\A f, g \in 1..Len(frames) :
            (f # g /\ frames'[f] # frames[f]) =>
                /\ frames'[g] = frames[g]
                /\ FetchesOf(g)' = FetchesOf(g)
                /\ \A k \in 1..Len(FetchesOf(g)) :
                      promises'[FetchesOf(g)[k]] = promises[FetchesOf(g)[k]]
                /\ RunLines(g)' = RunLines(g)]_vars

\* two runs have fulfilled and their lines alternate in the log
C13_Witness ==
    /\ Len(frames) = 2
    /\ \A f \in 1..2 : frames[f].fn = "getAllData" /\ frames[f].state = "fulfilled"
    /\ \E i, j, k \in 1..Len(log) :
          i < j /\ j < k /\ log[i].frame = 1 /\ log[j].frame = 2 /\ log[k].frame = 1

\* C14: when timers keep firing, every invocation of getAllData leads to that
\* run being fulfilled with exactly the fetches 1, 2, 3 issued, each once; and
\* no run and no getData promise is ever rejected
C14_EventuallyFulfilled ==
    /\ \A f \in 1..MaxInvocations :
          (Len(frames) >= f /\ frames[f].fn = "getAllData")
              ~> (/\ Len(frames) >= f
                  /\ frames[f].state = "fulfilled"
                  /\ FetchArgs(f) = <<1, 2, 3>>)
    /\ [](/\ \A f \in 1..Len(frames) :
                frames[f].fn = "getAllData" =>
                    /\ frames[f].state # "rejected"
                    /\ frames[f].state = "fulfilled" => FetchArgs(f) = <<1, 2, 3>>
          /\ \A p \in 1..Len(promises) :
                promises[p].kind = "getData" => promises[p].state # "rejected")

\* a run has fulfilled after its three fetches were fulfilled
C14_Witness ==
    \E f \in 1..Len(frames) :
        /\ frames[f].fn = "getAllData" /\ frames[f].state = "fulfilled"
        /\ FetchArgs(f) = <<1, 2, 3>>
        /\ \A k \in 1..3 : promises[FetchesOf(f)[k]].state = "fulfilled"

\* the timers of one run's getData calls that have not fired yet
PendingTimers(f) == {i \in 1..Len(timers) : promises[timers[i].promise].caller = f}

\* C15: during a run of getAllData (a) at most one getData timer is pending;
\* (b) every fetch but the latest has fulfilled, so getData(k+1) is called only
\* after getData(k) fulfilled; (c) a fetch that is issued starts a full delay
\* of its own then; (d) a fulfilled run has seen its three timers run one after
\* the other, in the order 1, 2, 3
C15_OneTimerAtATime ==
    /\ [](\A f \in 1..Len(frames) :
            frames[f].fn = "getAllData" =>
                LET ps == FetchesOf(f)
                IN  /\ Cardinality(PendingTimers(f)) <= 1
                    /\ \A k \in 1..(Len(ps) - 1) : promises[ps[k]].state = "fulfilled"
                    /\ \A i \in PendingTimers(f) : timers[i].promise = ps[Len(ps)]
                    /\ frames[f].state = "fulfilled" =>
                          /\ Len(ps) = 3
                          /\ PendingTimers(f) = {}
                          /\ \A k \in 1..3 : promises[ps[k]].state = "fulfilled"
                          /\ \A k \in 1..2 : promises[ps[k]].order < promises[ps[k + 1]].order
                          /\ Len(SelectSeq(RunLines(f), LAMBDA l : l.line = "data")) = 3)
    /\ [][\A f \in 1..Len(frames') :
            (frames'[f].fn = "getAllData"
                /\ Len(FetchesOf(f)') > (IF f <= Len(frames) THEN Len(FetchesOf(f)) ELSE 0)) =>
                LET ps == FetchesOf(f)'
                IN  /\ \A k \in 1..(Len(ps) - 1) : promises[ps[k]].state = "fulfilled"
                    /\ \E i \in 1..Len(timers') :
                          /\ timers'[i].promise = ps[Len(ps)]
                          /\ timers'[i].remaining = DelayMs
                    /\ \A i \in 1..Len(timers) : promises[timers[i].promise].caller # f]_vars

\* a run waits on the timer of its third fetch, the first two having fired
C15_Witness ==
    \E f \in 1..Len(frames) :
        /\ frames[f].fn = "getAllData" /\ frames[f].state = "pending"
        /\ Len(FetchesOf(f)) = 3
        /\ Cardinality(PendingTimers(f)) = 1
        /\ promises[FetchesOf(f)[2]].state = "fulfilled"

\* the positions in the log of the "data" lines of promise p
DataLinesOf(p) == {i \in 1..Len(log) : log[i].line = "data" /\ log[i].promise = p}

\* C16: of two getData calls, the one issued first has its "data" line logged
\* first and its promise fulfilled first: when the later call's line is in the
\* log or its promise fulfilled, so is the earlier call's, ahead of it
C16_IssueOrder ==
    \A p, q \in 1..Len(promises) :
        (promises[p].kind = "getData" /\ promises[q].kind = "getData" /\ p < q) =>
            /\ promises[q].state = "fulfilled" =>
                  /\ promises[p].state = "fulfilled"
                  /\ promises[p].order < promises[q].order
            /\ \A j \in DataLinesOf(q) : \E i \in DataLinesOf(p) : i < j
            /\ \A i \in DataLinesOf(p) : log[i].id = promises[p].arg

\* two calls made by the caller without awaiting are due together; the first
\* has logged its line and fulfilled, the second is still pending
C16_Witness ==
    \E p, q \in 1..Len(promises) :
        /\ p < q
        /\ promises[p].kind = "getData" /\ promises[p].caller = 0
        /\ promises[q].kind = "getData" /\ promises[q].caller = 0
        /\ promises[p].arg # promises[q].arg
        /\ promises[p].state = "fulfilled" /\ DataLinesOf(p) # {}
        /\ promises[q].state = "pending"
        /\ \E i \in 1..Len(timers) : timers[i].promise = q /\ timers[i].remaining = 0

\* nothing has been fetched or logged
NothingFetched == promises = <<>> /\ timers = <<>> /\ log = <<>> /\ frames = <<>>

\* C18: once script.js is loaded no promise exists, no timer is pending and
\* nothing is logged; and while nothing has been fetched, the only step that
\* starts a fetch is a call from outside: getData(id), which leaves one pending
\* promise and its timer, or getAllData(), which does so for id 1 on behalf of
\* its new frame after logging "getting data 1"
C18_NoFetchOnLoad ==
    /\ NothingFetched /\ microtasks = <<>>
    /\ [][NothingFetched =>
            \/ NothingFetched'
            \/ /\ Len(promises') = 1 /\ Len(timers') = 1
               /\ promises'[1].kind = "getData" /\ promises'[1].state = "pending"
               /\ timers'[1] = [promise |-> 1, remaining |-> DelayMs]
               /\ \/ /\ promises'[1].caller = 0
                     /\ frames' = <<>> /\ log' = <<>>
                  \/ /\ promises'[1].caller = 1 /\ promises'[1].arg = 1
                     /\ Len(frames') = 1 /\ frames'[1].fn = "getAllData"
                     /\ frames'[1].state = "pending"
                     /\ Len(log') = 1 /\ log'[1].line = "getting data" /\ log'[1].id = 1]_vars

\* the first call from outside has been made: its fetch is the only one
C18_Witness ==
    /\ Len(promises) = 1 /\ promises[1].state = "pending"
    /\ Len(timers) = 1 /\ timers[1].remaining = DelayMs
    /\ Len(frames) = 1 /\ frames[1].fn = "getAllData"
    /\ Len(log) = 1

---------------------------------------------------------------------------
(* Properties of the README's three variants of getUserData *)

\* the fetches frame f has issued, as <<function, argument>>, in issue order
FetchCalls(f) ==
    [k \in 1..Len(FetchesOf(f)) |->
        <<promises[FetchesOf(f)[k]].kind, promises[FetchesOf(f)[k]].arg>>]

\* C17: any two of the three variants, called with the same userId against the
\* same database and both finished, have issued the same fetches in the same
\* order and have each delivered one outcome to their caller, the same value
\* or the same error
C17_SameOperation ==
    \A f, g \in 1..Len(frames) :
        (frames[f].fn \in Variants /\ frames[g].fn \in Variants
            /\ Finished(f) /\ Finished(g)) =>
            /\ FetchCalls(f) = FetchCalls(g)
            /\ Outcome(f).state \in {"fulfilled", "rejected"}
            /\ Outcome(f) = Outcome(g)

\* the database gave an empty posts list: the promise variant has rejected
\* with the TypeError of posts[0].id, while in the callback variant the same
\* TypeError left the fetchUserPosts callback and the caller's callback was
\* never called
C17_Witness ==
    \E f, g \in 1..Len(frames) :
        /\ frames[f].fn = "getUserDataCallback" /\ frames[g].fn = "getUserDataPromise"
        /\ FetchCalls(f) = FetchCalls(g)
        /\ frames[f].state = "uncaught"
        /\ Outcome(g) = [state |-> "rejected", value |-> Err("TypeError")]

====
